---- MODULE Spec2Model ----
(***************************************************************************)
(* Cashbook+ client (src/static/app.js): the page's view state, the        *)
(* asynchronous load / add / delete handlers, the filter engine, the       *)
(* renderer, the insights generator and the export adapters.               *)
(*                                                                         *)
(* JavaScript strings that the code inspects (notes, the search keyword,   *)
(* String(amount)) are sequences of one-character strings, so that trim,   *)
(* toLowerCase and includes are computed rather than assumed.  Cashbook    *)
(* names, dates and messages are only compared for equality and stay TLA+  *)
(* strings.  Every handler runs to completion between two awaits on the    *)
(* network (the browser's event loop), so one action is one such run.      *)
(***************************************************************************)
EXTENDS Integers, Sequences, FiniteSets, TLC

\* --------------------------------------------------------------- bounds
\* Async handler executions that may be in flight at once.
MaxTasks == 2
\* Entries the backend creates during one page session.
MaxAdds == 1
\* User events (submit, click, input) dispatched during one page session.
MaxUserEvents == 3

\* ------------------------------------------------------ string helpers
UpperChars == <<"A","B","C","D","E","F","G","H","I","J","K","L","M",
                "N","O","P","Q","R","S","T","U","V","W","X","Y","Z">>
LowerChars == <<"a","b","c","d","e","f","g","h","i","j","k","l","m",
                "n","o","p","q","r","s","t","u","v","w","x","y","z">>
DigitChars == <<"0","1","2","3","4","5","6","7","8","9">>

Range(s) == { s[i] : i \in DOMAIN s }

\* String.prototype.toLowerCase, one character.
LowerChar(c) ==
    IF \E i \in DOMAIN UpperChars : UpperChars[i] = c
    THEN LowerChars[CHOOSE i \in DOMAIN UpperChars : UpperChars[i] = c]
    ELSE c

\* String.prototype.toLowerCase.
ToLowerCase(s) == [i \in DOMAIN s |-> LowerChar(s[i])]

IsSpace(c) == c = " "

RECURSIVE TrimStart(_)
TrimStart(s) ==
    IF s # <<>> /\ IsSpace(Head(s)) THEN TrimStart(Tail(s)) ELSE s

RECURSIVE TrimEnd(_)
TrimEnd(s) ==
    IF s # <<>> /\ IsSpace(s[Len(s)])
    THEN TrimEnd(SubSeq(s, 1, Len(s) - 1))
    ELSE s

\* String.prototype.trim.
Trim(s) == TrimEnd(TrimStart(s))

\* String.prototype.includes: sub occurs in s as a contiguous run.
Includes(s, sub) ==
    \E i \in 1..(Len(s) - Len(sub) + 1) : SubSeq(s, i, i + Len(sub) - 1) = sub

\* String(n) for a non-negative integer n.
RECURSIVE NatToString(_)
NatToString(n) ==
    IF n < 10 THEN <<DigitChars[n + 1]>>
    ELSE NatToString(n \div 10) \o <<DigitChars[(n % 10) + 1]>>

RECURSIVE SumSeq(_)
SumSeq(s) == IF s = <<>> THEN 0 ELSE Head(s) + SumSeq(Tail(s))

Abs(n) == IF n < 0 THEN -n ELSE n

\* ------------------------------------------------------------ calendar
\* new Date("YYYY-MM-DD"): the date strings in use and their day numbers.
Calendar == <<[s |-> "2024-05-10", day |-> 10],
              [s |-> "2024-05-18", day |-> 18]>>

DateValue(d) == (CHOOSE i \in DOMAIN Calendar : Calendar[i].s = d)
DayOf(d) == Calendar[DateValue(d)].day

\* new Date(): the page runs on 2024-05-20, some time after midnight UTC.
NowDay == 20

\* ------------------------------------------------------------- entries
Entry(id, date, type, amount, note) ==
    [id |-> id, date |-> date, type |-> type, amount |-> amount, note |-> note]

Amounts(entries, type) ==
    LET sel == SelectSeq(entries, LAMBDA e : e.type = type)
    IN  SumSeq([i \in DOMAIN sel |-> sel[i].amount])

\* ------------------------------------------------------- filter engine
\* applyFilters, lines 108-121: the list handed to renderEntries.
\* keywordInput and dateInput are the raw values of the two inputs.
MatchesKeyword(entry, keyword) ==
    \/ Includes(ToLowerCase(entry.note), keyword)
    \/ Includes(NatToString(entry.amount), keyword)

FilterEntriesUntrimmed(entries, keywordInput, dateInput) ==
    LET keyword == ToLowerCase(keywordInput)
        byKeyword == IF keyword # <<>>
                     THEN SelectSeq(entries, LAMBDA e : MatchesKeyword(e, keyword))
                     ELSE entries
    IN  IF dateInput # ""
        THEN SelectSeq(byKeyword, LAMBDA e : e.date = dateInput)
        ELSE byKeyword

FilterEntries(entries, keywordInput, dateInput) ==
    LET keyword == ToLowerCase(Trim(keywordInput))
        byKeyword == IF keyword # <<>>
                     THEN SelectSeq(entries, LAMBDA e : MatchesKeyword(e, keyword))
                     ELSE entries
    IN  IF dateInput # ""
        THEN SelectSeq(byKeyword, LAMBDA e : e.date = dateInput)
        ELSE byKeyword

\* ------------------------------------------------------------ renderer
\* entries.slice().sort((a, b) => new Date(b.date) - new Date(a.date)):
\* Array.prototype.sort is stable, so equal dates keep their list order.
RECURSIVE InsertByDateDesc(_, _)
InsertByDateDesc(sorted, e) ==
    IF sorted = <<>> THEN <<e>>
    ELSE IF DayOf(Head(sorted).date) >= DayOf(e.date)
         THEN <<Head(sorted)>> \o InsertByDateDesc(Tail(sorted), e)
         ELSE <<e>> \o sorted

RECURSIVE SortInto(_, _)
SortInto(sorted, rest) ==
    IF rest = <<>> THEN sorted
    ELSE SortInto(InsertByDateDesc(sorted, Head(rest)), Tail(rest))

SortByDateDesc(entries) == SortInto(<<>>, entries)

\* renderEntries, lines 129-158: the rows of the transaction table, one per
\* entry; the empty sequence stands for the single "No transactions found"
\* placeholder row.
TableRows(entries) == SortByDateDesc(entries)

\* ---------------------------------------------------- insights generator
Insight(kind, value, text) == [kind |-> kind, value |-> value, text |-> text]

RECURSIVE NoteKeys(_, _)
\* Keys of the topNotes accumulator in insertion order.
NoteKeys(keys, entries) ==
    IF entries = <<>> THEN keys
    ELSE LET e == Head(entries)
             key == ToLowerCase(Trim(e.note))
         IN  IF e.type = "cash_out" /\ e.note # <<>> /\ key \notin Range(keys)
             THEN NoteKeys(Append(keys, key), Tail(entries))
             ELSE NoteKeys(keys, Tail(entries))

NoteTotal(entries, key) ==
    LET sel == SelectSeq(entries, LAMBDA e : /\ e.type = "cash_out"
                                             /\ e.note # <<>>
                                             /\ ToLowerCase(Trim(e.note)) = key)
    IN  SumSeq([i \in DOMAIN sel |-> sel[i].amount])

\* updateInsights, lines 163-234: the items of the insights list.
\* value is an amount, or tenths of a percent for the weekly trend.
UpdateInsights(entries, balance) ==
    IF entries = <<>> THEN <<Insight("keep-logging", 0, <<>>)>>
    ELSE
    LET totalIn == Amounts(entries, "cash_in")
        totalOut == Amounts(entries, "cash_out")
        lastWeek == SelectSeq(entries, LAMBDA e :
                        e.type = "cash_out" /\ DayOf(e.date) > NowDay - 7)
        prevWeek == SelectSeq(entries, LAMBDA e :
                        /\ e.type = "cash_out"
                        /\ DayOf(e.date) <= NowDay - 7
                        /\ DayOf(e.date) > NowDay - 14)
        spendLastWeek == SumSeq([i \in DOMAIN lastWeek |-> lastWeek[i].amount])
        spendPrevWeek == SumSeq([i \in DOMAIN prevWeek |-> prevWeek[i].amount])
        diff == spendLastWeek - spendPrevWeek
        tenths == (Abs(diff) * 2000 + spendPrevWeek) \div (2 * spendPrevWeek)
        keys == NoteKeys(<<>>, entries)
        top == CHOOSE i \in DOMAIN keys :
                 /\ \A j \in DOMAIN keys :
                        NoteTotal(entries, keys[j]) <= NoteTotal(entries, keys[i])
                 /\ \A j \in 1..(i - 1) :
                        NoteTotal(entries, keys[j]) < NoteTotal(entries, keys[i])
        insights ==
            (IF totalOut > 0 THEN <<Insight("spending", totalOut, <<>>)>> ELSE <<>>)
         \o (IF totalIn > 0 THEN <<Insight("inflow", totalIn, <<>>)>> ELSE <<>>)
         \o (IF spendPrevWeek > 0
             THEN IF Abs(diff) * 10 >= spendPrevWeek
                  THEN <<Insight(IF diff > 0 THEN "more" ELSE "less", tenths, <<>>)>>
                  ELSE <<>>
             ELSE IF spendLastWeek > 0
                  THEN <<Insight("new-spending", 0, <<>>)>>
                  ELSE <<>>)
         \o (IF keys # <<>>
             THEN <<Insight("top-note", NoteTotal(entries, keys[top]), keys[top])>>
             ELSE <<>>)
         \o (IF balance < 0 THEN <<Insight("negative-balance", 0, <<>>)>> ELSE <<>>)
    IN  IF insights = <<>> THEN <<Insight("steady", 0, <<>>)>> ELSE insights

\* ------------------------------------------------------ export adapters
\* exportPDFOnly / exportExcelOnly: rows (#, date, type, amount, note),
\* sorted like the table, and the totals computed on the client.
ExportRows(entries) ==
    LET sorted == SortByDateDesc(entries)
    IN  [i \in DOMAIN sorted |->
            [n |-> i, date |-> sorted[i].date,
             type |-> IF sorted[i].type = "cash_in" THEN "Cash In" ELSE "Cash Out",
             amount |-> sorted[i].amount,
             note |-> IF sorted[i].note # <<>> THEN sorted[i].note ELSE <<"-">>]]

ExportDocument(kind, cashbook, entries) ==
    [kind |-> kind, cashbook |-> cashbook, rows |-> ExportRows(entries),
     totalIn |-> Amounts(entries, "cash_in"),
     totalOut |-> Amounts(entries, "cash_out"),
     balance |-> Amounts(entries, "cash_in") - Amounts(entries, "cash_out")]

\* ------------------------------------------------- cashbook resolution
\* loadCashbooks, lines 272-280: the new value of state.activeCashbook.
ResolveActive(cashbooks, urlCashbook, prior) ==
    IF urlCashbook # "" /\ urlCashbook \in Range(cashbooks) THEN urlCashbook
    ELSE IF Len(cashbooks) > 0 /\ prior = "" THEN cashbooks[1]
    ELSE IF Len(cashbooks) = 0 THEN ""
    ELSE prior

\* ------------------------------------------------------------ backend
\* The REST collaborator of spec section 6 and its data when the page opens.
CashbookNames == {"A", "B"}

InitialEntries(c) ==
    IF c = "A"
    THEN <<Entry(1, "2024-05-10", "cash_in", 500, <<>>)>>
    ELSE <<Entry(2, "2024-05-18", "cash_out", 40, <<"t","e","a">>)>>

\* The entry form's values at submit (FormData of #entry-form).
Payloads ==
    { [date |-> "2024-05-18", type |-> "cash_out", amount |-> 50,
       note |-> <<"T","e","a">>] }

NoPayload == [date |-> "", type |-> "", amount |-> 0, note |-> <<>>]

\* Values typed into #search-input and #date-filter.
KeywordInputs == { <<>>, <<"T","E"," ">>, <<"5">> }
DateInputs == { "", "2024-05-10" }

\* GET /api/summary/<cashbook>.
SummaryOf(entries) ==
    [total_in |-> Amounts(entries, "cash_in"),
     total_out |-> Amounts(entries, "cash_out"),
     balance |-> Amounts(entries, "cash_in") - Amounts(entries, "cash_out")]

ZeroSummary == [total_in |-> 0, total_out |-> 0, balance |-> 0]

\* --------------------------------------------------------------- state
VARIABLES
    username, activeCashbook, allEntries, summary,   \* the state object
    keywordInput, dateInput,                         \* filter inputs
    tableRows, insightsList, indicator,              \* rendered DOM
    loading, location,                               \* overlay, page URL
    shown, saved,                                    \* output of the last run
    urlCashbook, localStorage,                       \* browser
    booted, tasks,                                   \* event loop
    serverCashbooks, serverEntries, nextId,          \* backend
    lastFetched, anyFailed, userEvents               \* history

\* shown: the toasts the handler run that just finished handed to showToast
\* (each dismisses itself 3.6 s later); saved: the files it wrote.
stateVars == <<username, activeCashbook, allEntries, summary>>
domVars == <<keywordInput, dateInput, tableRows, insightsList, indicator,
             loading, location>>
browserVars == <<urlCashbook, localStorage>>
serverVars == <<serverCashbooks, serverEntries, nextId>>
vars == <<stateVars, domVars, shown, saved, browserVars, booted, tasks,
          serverVars, lastFetched, anyFailed, userEvents>>

Toast(message, type) == [message |-> message, type |-> type]

\* One async handler execution suspended at an await on fetchJSON: the
\* handler (op), the request awaited (pc), the cashbook and entry id in its
\* URL, the add payload, and the response once the backend has answered.
Task(op, pc, cashbook, id, payload) ==
    [op |-> op, pc |-> pc, cashbook |-> cashbook, id |-> id,
     payload |-> payload, status |-> "pending", body |-> <<>>]

RemoveAt(s, i) == SubSeq(s, 1, i - 1) \o SubSeq(s, i + 1, Len(s))

\* Handlers run while the page is up: after DOMContentLoaded and until a
\* navigation replaces the document.
PageAlive == booted /\ location = "/"

\* A user event is dispatched to its listener.
UserEvent ==
    /\ PageAlive
    /\ userEvents < MaxUserEvents
    /\ userEvents' = userEvents + 1

Ids(entries) == { entries[i].id : i \in DOMAIN entries }

CashbookLists == { <<>>, <<"A", "B">> }
UrlChoices == { "", "B" }

InitPage ==
    /\ username = ""
    /\ allEntries = <<>>
    /\ summary = ZeroSummary
    /\ keywordInput = <<>>
    /\ dateInput = ""
    /\ tableRows = <<>>
    /\ insightsList = <<>>
    /\ indicator = ""
    /\ loading \in BOOLEAN
    /\ location = "/"
    /\ shown = <<>>
    /\ saved = <<>>
    /\ localStorage = [c \in {} |-> <<>>]
    /\ booted = FALSE
    /\ tasks = <<>>
    /\ serverEntries = [c \in CashbookNames |-> InitialEntries(c)]
    /\ nextId = 3
    /\ lastFetched = [cashbook |-> "", entries |-> <<>>]
    /\ anyFailed = FALSE
    /\ userEvents = 0

Init ==
    /\ InitPage
    /\ activeCashbook = ""
    /\ urlCashbook \in UrlChoices
    /\ serverCashbooks \in CashbookLists

\* ------------------------------------------------------- client pieces
\* showToast, lines 11-22: the toast joins the container.
ShowToast(container, message, type) == Append(container, Toast(message, type))

FetchFirstCashbook(active) == "A"

\* loadEntries, line 244: the cashbook named in the get_entries URL.
FetchCashbook(active) == active

ExportFiltered == FilterEntries(allEntries, keywordInput, dateInput)

\* exportPDFOnly / exportExcelOnly, lines 415 and 463: the exported entries.
ExportEntries == allEntries

\* The finally blocks of loadEntries (255-257) and loadCashbooks (285-287):
\* the overlay after a rejected request, given the overlay before it.
LoadPcs == {"get_cashbooks", "get_entries", "summary"}
LoadingLeftAsIs(pc, active) == active
LoadingAfterFailure(pc, active) == IF pc \in LoadPcs THEN FALSE ELSE active

\* The catch blocks (253-254, 283-284, 335-337, 357-359): the handler of
\* task i ends there; nothing is issued again.
RetryAfterRejection(ts, i) == [ts EXCEPT ![i].status = "pending"]
AfterRejection(ts, i) == RemoveAt(ts, i)

\* renderEntries: the table and, through its call of updateInsights
\* (lines 139 and 160), the insights list.
Render(entries, balance) ==
    /\ tableRows' = TableRows(entries)
    /\ insightsList' = UpdateInsights(entries, balance)

\* applyFilters, lines 105-123, on the new values of the inputs.
ApplyFilters ==
    Render(FilterEntries(allEntries, keywordInput', dateInput'), summary.balance)

\* loadEntries, lines 236-242, entered by the task at index i.  caller is
\* the handler awaiting it.
LoadEntriesCall(i, active, caller) ==
    IF active = ""
    THEN /\ summary' = ZeroSummary
         /\ Render(<<>>, summary.balance)
         /\ tasks' = RemoveAt(tasks, i)
         /\ loading' = IF caller = "loadCashbooks" THEN FALSE ELSE loading
    ELSE /\ loading' = TRUE
         /\ tasks' = [tasks EXCEPT ![i] =
                        Task(@.op, "get_entries", FetchCashbook(active),
                             @.id, @.payload)]
         /\ UNCHANGED <<tableRows, insightsList, summary>>

AddsPending ==
    Cardinality({ i \in DOMAIN tasks :
                    tasks[i].pc = "add_entry" /\ tasks[i].status = "pending" })

\* ------------------------------------------------------------- actions
\* DOMContentLoaded, lines 506-512: bindEvents, then loadCashbooks runs to
\* its first await.
DOMContentLoaded ==
    /\ ~booted
    /\ booted' = TRUE
    /\ loading' = TRUE
    /\ tasks' = <<Task("loadCashbooks", "get_cashbooks", "", 0, NoPayload)>>
    /\ shown' = <<>> /\ saved' = <<>>
    /\ UNCHANGED userEvents
    /\ UNCHANGED <<stateVars, keywordInput, dateInput, tableRows, insightsList,
                   indicator, location, browserVars, serverVars,
                   lastFetched, anyFailed>>

\* entry-form submit handler, lines 317-338, up to its await.
SubmitEntry(p) ==
    /\ UserEvent
    /\ IF activeCashbook = ""
       THEN /\ shown' = ShowToast(<<>>,
                   "Please select a cashbook from the Cashbooks page first", "info")
            /\ location' = "/cashbooks"
            /\ UNCHANGED tasks
       ELSE /\ Len(tasks) < MaxTasks
            /\ (nextId - 3) + AddsPending < MaxAdds
            /\ tasks' = Append(tasks,
                   Task("add", "add_entry", activeCashbook, 0, p))
            /\ shown' = <<>>
            /\ UNCHANGED location
    /\ saved' = <<>>
    /\ UNCHANGED <<stateVars, keywordInput, dateInput, tableRows, insightsList,
                   indicator, loading, browserVars, booted, serverVars,
                   lastFetched, anyFailed>>

\* transaction-body click handler, lines 343-361, up to its await; the
\* delete buttons are those of the rendered rows.
ClickDelete(id) ==
    /\ UserEvent
    /\ id \in Ids(tableRows)
    /\ IF activeCashbook = ""
       THEN /\ shown' = ShowToast(<<>>, "No cashbook selected", "info")
            /\ UNCHANGED tasks
       ELSE /\ Len(tasks) < MaxTasks
            /\ tasks' = Append(tasks,
                   Task("delete", "delete_entry", activeCashbook, id, NoPayload))
            /\ shown' = <<>>
    /\ saved' = <<>>
    /\ UNCHANGED <<stateVars, keywordInput, dateInput, tableRows, insightsList,
                   indicator, loading, location, browserVars, booted,
                   serverVars, lastFetched, anyFailed>>

\* input listeners of the two filter fields, lines 367-368.
InputKeyword(k) ==
    /\ UserEvent
    /\ keywordInput' = k
    /\ dateInput' = dateInput
    /\ ApplyFilters
    /\ shown' = <<>> /\ saved' = <<>>
    /\ UNCHANGED <<stateVars, indicator, loading, location, browserVars,
                   booted, tasks, serverVars, lastFetched, anyFailed>>

InputDate(d) ==
    /\ UserEvent
    /\ dateInput' = d
    /\ keywordInput' = keywordInput
    /\ ApplyFilters
    /\ shown' = <<>> /\ saved' = <<>>
    /\ UNCHANGED <<stateVars, indicator, loading, location, browserVars,
                   booted, tasks, serverVars, lastFetched, anyFailed>>

\* clear-filters click handler, lines 370-374.
ClearFilters ==
    /\ UserEvent
    /\ keywordInput' = <<>>
    /\ dateInput' = ""
    /\ ApplyFilters
    /\ shown' = <<>> /\ saved' = <<>>
    /\ UNCHANGED <<stateVars, indicator, loading, location, browserVars,
                   booted, tasks, serverVars, lastFetched, anyFailed>>

\* export click handlers, lines 379-385 and 391-397, with exportPDFOnly /
\* exportExcelOnly.  The second listeners of lines 502-503 call exportData,
\* which is not defined: they throw and change nothing.
Export(kind) ==
    /\ UserEvent
    /\ IF activeCashbook = ""
       THEN /\ shown' = ShowToast(<<>>, "Select a cashbook to export.", "info")
            /\ saved' = <<>>
       ELSE IF ExportEntries = <<>>
       THEN /\ shown' = ShowToast(<<>>, "No data to export.", "info")
            /\ saved' = <<>>
       ELSE /\ saved' = <<ExportDocument(kind, activeCashbook, ExportEntries)>>
            /\ shown' = ShowToast(<<>>, "exported successfully!", "success")
    /\ UNCHANGED <<stateVars, domVars, browserVars, booted, tasks, serverVars,
                   lastFetched, anyFailed>>

ExportPDF == Export("pdf")
ExportExcel == Export("xlsx")

\* logout click handler, lines 403-409, up to its await.
ClickLogout ==
    /\ UserEvent
    /\ Len(tasks) < MaxTasks
    /\ tasks' = Append(tasks, Task("logout", "logout", "", 0, NoPayload))
    /\ shown' = <<>> /\ saved' = <<>>
    /\ UNCHANGED <<stateVars, domVars, browserVars, booted, serverVars,
                   lastFetched, anyFailed>>

\* ------------------------------------------------------------- backend
\* The backend answers the request of task i: 2xx, a failure (network or
\* non-2xx) or 401.  Mutations take effect only when it answers 2xx.
RemoveId(entries, id) == SelectSeq(entries, LAMBDA e : e.id # id)

\* GET /api/get_entries?cashbook=<name>.
EntriesOf(c) == IF c \in DOMAIN serverEntries THEN serverEntries[c] ELSE <<>>

ServerOk(i) ==
    LET t == tasks[i] IN
    /\ location = "/"
    /\ t.status = "pending"
    /\ CASE t.pc = "get_cashbooks" ->
              /\ tasks' = [tasks EXCEPT ![i].status = "ok",
                             ![i].body = [username |-> "user",
                                          cashbooks |-> serverCashbooks]]
              /\ UNCHANGED <<serverEntries, nextId>>
         [] t.pc = "get_entries" ->
              /\ tasks' = [tasks EXCEPT ![i].status = "ok",
                             ![i].body = EntriesOf(t.cashbook)]
              /\ UNCHANGED <<serverEntries, nextId>>
         [] t.pc = "summary" ->
              /\ tasks' = [tasks EXCEPT ![i].status = "ok",
                             ![i].body = SummaryOf(EntriesOf(t.cashbook))]
              /\ UNCHANGED <<serverEntries, nextId>>
         [] t.pc = "add_entry" ->
              /\ serverEntries' = [serverEntries EXCEPT ![t.cashbook] =
                    Append(@, Entry(nextId, t.payload.date, t.payload.type,
                                    t.payload.amount, t.payload.note))]
              /\ nextId' = nextId + 1
              /\ tasks' = [tasks EXCEPT ![i].status = "ok", ![i].id = nextId]
         [] t.pc = "delete_entry" ->
              /\ serverEntries' = [serverEntries EXCEPT ![t.cashbook] =
                    RemoveId(@, t.id)]
              /\ tasks' = [tasks EXCEPT ![i].status = "ok"]
              /\ UNCHANGED nextId
         [] OTHER ->
              /\ tasks' = [tasks EXCEPT ![i].status = "ok"]
              /\ UNCHANGED <<serverEntries, nextId>>
    /\ UNCHANGED userEvents
    /\ UNCHANGED <<stateVars, domVars, shown, saved, browserVars, booted,
                   serverCashbooks, lastFetched, anyFailed>>

ServerFail(i, status) ==
    /\ location = "/"
    /\ tasks[i].status = "pending"
    /\ tasks' = [tasks EXCEPT ![i].status = status]
    /\ UNCHANGED userEvents
    /\ UNCHANGED <<stateVars, domVars, shown, saved, browserVars, booted,
                   serverVars, lastFetched, anyFailed>>

\* ------------------------------------------------- response handlers
\* fetchJSON resolves in loadCashbooks, lines 264-282, which runs on into
\* loadEntries up to its await (or through its early return and both
\* finally blocks, then line 511).
DeliverCashbooks(i) ==
    LET t == tasks[i]
        active == ResolveActive(t.body.cashbooks, urlCashbook, activeCashbook)
    IN
    /\ PageAlive
    /\ t.pc = "get_cashbooks" /\ t.status = "ok"
    /\ username' = IF t.body.username # "" THEN t.body.username ELSE username
    /\ activeCashbook' = active
    /\ indicator' = active
    /\ LoadEntriesCall(i, active, "loadCashbooks")
    /\ shown' = <<>> /\ saved' = <<>>
    /\ UNCHANGED userEvents
    /\ UNCHANGED <<allEntries, keywordInput, dateInput, location,
                   browserVars, booted, serverVars, lastFetched, anyFailed>>

\* fetchJSON resolves in loadEntries, lines 244-250.
DeliverEntries(i) ==
    LET t == tasks[i] IN
    /\ PageAlive
    /\ t.pc = "get_entries" /\ t.status = "ok"
    /\ allEntries' = t.body
    /\ localStorage' = [c \in DOMAIN localStorage \cup {activeCashbook} |->
                          IF c = activeCashbook THEN t.body ELSE localStorage[c]]
    /\ tasks' = [tasks EXCEPT ![i] =
                    Task(@.op, "summary", activeCashbook, @.id, @.payload)]
    /\ lastFetched' = [cashbook |-> t.cashbook, entries |-> t.body]
    /\ shown' = <<>> /\ saved' = <<>>
    /\ UNCHANGED userEvents
    /\ UNCHANGED <<username, activeCashbook, summary, domVars, urlCashbook,
                   booted, serverVars, anyFailed>>

\* fetchJSON resolves in loadEntries, lines 250-252, then the finally block.
DeliverSummary(i) ==
    LET t == tasks[i] IN
    /\ PageAlive
    /\ t.pc = "summary" /\ t.status = "ok"
    /\ summary' = t.body
    /\ Render(allEntries, t.body.balance)
    /\ loading' = FALSE
    /\ tasks' = RemoveAt(tasks, i)
    /\ shown' = <<>> /\ saved' = <<>>
    /\ UNCHANGED userEvents
    /\ UNCHANGED <<username, activeCashbook, allEntries, keywordInput,
                   dateInput, indicator, location, browserVars, booted,
                   serverVars, lastFetched, anyFailed>>

\* fetchJSON resolves in the submit or delete handler, lines 332-334 and
\* 355-356, which runs on into loadEntries up to its await.
DeliverMutation(i) ==
    LET t == tasks[i] IN
    /\ PageAlive
    /\ t.pc \in {"add_entry", "delete_entry"} /\ t.status = "ok"
    /\ shown' = ShowToast(<<>>,
                    IF t.op = "add" THEN "Entry added" ELSE "Entry deleted",
                    "success")
    /\ LoadEntriesCall(i, activeCashbook, t.op)
    /\ saved' = <<>>
    /\ UNCHANGED userEvents
    /\ UNCHANGED <<username, activeCashbook, allEntries, keywordInput,
                   dateInput, indicator, location, browserVars, booted,
                   serverVars, lastFetched, anyFailed>>

\* fetchJSON throws (lines 42-45) or rejects after setting the location
\* (lines 38-41); the catch block of the handler at that await shows the
\* message and the finally blocks run.
DeliverFailure(i) ==
    LET t == tasks[i] IN
    /\ PageAlive
    /\ t.pc # "logout" /\ t.status \in {"error", "unauth"}
    /\ location' = IF t.status = "unauth" THEN "/login" ELSE location
    /\ shown' = ShowToast(<<>>,
                    IF t.status = "unauth" THEN "Unauthorized"
                                           ELSE "Request failed",
                    "error")
    /\ loading' = LoadingAfterFailure(t.pc, loading)
    /\ tasks' = AfterRejection(tasks, i)
    /\ anyFailed' = TRUE
    /\ saved' = <<>>
    /\ UNCHANGED userEvents
    /\ UNCHANGED <<stateVars, keywordInput, dateInput, tableRows, insightsList,
                   indicator, browserVars, booted, serverVars, lastFetched>>

\* The logout handler, lines 404-408: try / finally without catch.
DeliverLogout(i) ==
    LET t == tasks[i] IN
    /\ PageAlive
    /\ t.pc = "logout" /\ t.status # "pending"
    /\ location' = "/login"
    /\ tasks' = RemoveAt(tasks, i)
    /\ anyFailed' = (anyFailed \/ t.status # "ok")
    /\ shown' = <<>> /\ saved' = <<>>
    /\ UNCHANGED userEvents
    /\ UNCHANGED <<stateVars, keywordInput, dateInput, tableRows, insightsList,
                   indicator, loading, browserVars, booted, serverVars,
                   lastFetched>>

Next ==
    \/ DOMContentLoaded
    \/ \E p \in Payloads : SubmitEntry(p)
    \/ \E id \in Ids(tableRows) : ClickDelete(id)
    \/ \E k \in KeywordInputs : InputKeyword(k)
    \/ \E d \in DateInputs : InputDate(d)
    \/ ClearFilters
    \/ ExportPDF
    \/ ExportExcel
    \/ ClickLogout
    \/ \E i \in DOMAIN tasks : ServerOk(i)
    \/ \E i \in DOMAIN tasks : \E st \in {"error", "unauth"} : ServerFail(i, st)
    \/ \E i \in DOMAIN tasks : DeliverCashbooks(i)
    \/ \E i \in DOMAIN tasks : DeliverEntries(i)
    \/ \E i \in DOMAIN tasks : DeliverSummary(i)
    \/ \E i \in DOMAIN tasks : DeliverMutation(i)
    \/ \E i \in DOMAIN tasks : DeliverFailure(i)
    \/ \E i \in DOMAIN tasks : DeliverLogout(i)

Spec == Init /\ [][Next]_vars

\* The cashbook resolution of loadCashbooks for any prior active cashbook:
\* the page state with state.activeCashbook already set, and the load alone.
PriorChoices == { "", "A", "B" }
UrlValues == { "", "A", "B", "C" }
ListValues == { <<>>, <<"A">>, <<"A", "B">> }

InitResolve ==
    /\ InitPage
    /\ activeCashbook \in PriorChoices
    /\ urlCashbook \in UrlValues
    /\ serverCashbooks \in ListValues

NextResolve ==
    \/ DOMContentLoaded
    \/ \E i \in DOMAIN tasks : ServerOk(i)
    \/ \E i \in DOMAIN tasks : \E st \in {"error", "unauth"} : ServerFail(i, st)
    \/ \E i \in DOMAIN tasks : DeliverCashbooks(i)
    \/ \E i \in DOMAIN tasks : DeliverEntries(i)
    \/ \E i \in DOMAIN tasks : DeliverSummary(i)
    \/ \E i \in DOMAIN tasks : DeliverFailure(i)

SpecResolve == InitResolve /\ [][NextResolve]_vars

\* -------------------------------------------------------------- claims
FilterStep ==
    \/ \E k \in KeywordInputs : InputKeyword(k)
    \/ \E d \in DateInputs : InputDate(d)
    \/ ClearFilters

ExportStep == ExportPDF \/ ExportExcel

SubmitStep == \E p \in Payloads : SubmitEntry(p)
ClickDeleteStep == \E id \in Ids(tableRows) : ClickDelete(id)

\* The step issues exactly one request, of kind pc, and touches no other.
IssuesOne(pc) ==
    /\ Len(tasks') = Len(tasks) + 1
    /\ SubSeq(tasks', 1, Len(tasks)) = tasks
    /\ tasks'[Len(tasks')].pc = pc
    /\ tasks'[Len(tasks')].status = "pending"

\* C1: allEntries is the list of the last successful get_entries fetch made
\* for the active cashbook (empty before any), never a list fetched for
\* another cashbook, and every table render draws its rows from it.
C1_EntriesOfActiveCashbook ==
    /\ [](allEntries = IF lastFetched.cashbook = activeCashbook
                       THEN lastFetched.entries ELSE <<>>)
    /\ [][tableRows' # tableRows =>
            Range(tableRows') \subseteq Range(allEntries')]_vars

C1_Witness ==
    /\ activeCashbook = "B"
    /\ lastFetched.cashbook = "B"
    /\ allEntries # <<>>
    /\ tableRows # <<>>

\* The resolution the claim describes: URL cashbook if listed, else the
\* prior cashbook if listed, else the first listed, else none.
ClaimedActive(cashbooks, url, prior) ==
    IF url \in Range(cashbooks) THEN url
    ELSE IF prior \in Range(cashbooks) THEN prior
    ELSE IF cashbooks # <<>> THEN cashbooks[1]
    ELSE ""

C3_UnauthorizedIsSilent ==
    [][\A i \in DOMAIN tasks :
         (tasks[i].status = "unauth" /\ (DeliverFailure(i) \/ DeliverLogout(i))) =>
           /\ location' = "/login"
           /\ UNCHANGED <<stateVars, tableRows, insightsList>>
           /\ tasks' = RemoveAt(tasks, i)
           /\ \A k \in DOMAIN shown' : shown'[k].type # "error"]_vars

\* The filter predicate on a keyword and a date.
Selected(e, keyword, date) ==
    /\ \/ keyword = <<>>
       \/ Includes(ToLowerCase(e.note), ToLowerCase(keyword))
       \/ Includes(NatToString(e.amount), keyword)
    /\ date = "" \/ e.date = date

Position(list, e) == CHOOSE i \in DOMAIN list : list[i] = e

\* rows holds the selected entries of list, each once, by date descending,
\* entries of one date in their order in list.
ShowsSelected(rows, list, keyword, date) ==
    /\ Range(rows) = { e \in Range(list) : Selected(e, keyword, date) }
    /\ Len(rows) = Cardinality(Range(rows))
    /\ \A i, j \in DOMAIN rows :
         i < j => \/ DayOf(rows[i].date) > DayOf(rows[j].date)
                  \/ /\ rows[i].date = rows[j].date
                     /\ Position(list, rows[i]) < Position(list, rows[j])

\* C4 as stated: applyFilters renders the entries selected by the raw
\* keyword and date of the inputs, in their order in allEntries.
C4_AsStated ==
    [][FilterStep =>
         tableRows' = SelectSeq(allEntries,
                         LAMBDA e : Selected(e, keywordInput', dateInput'))]_vars

\* C4 amended: applyFilters renders the entries selected by the trimmed,
\* lower-cased keyword and the date, sorted by date descending, entries of
\* one date in their order in allEntries.
C4_FilterThenSort ==
    [][FilterStep =>
         ShowsSelected(tableRows', allEntries,
                       ToLowerCase(Trim(keywordInput')), dateInput')]_vars

C4_Witness ==
    /\ keywordInput = <<"T","E"," ">>
    /\ dateInput = ""
    /\ tableRows # <<>>
    /\ Len(tableRows) < Len(allEntries)
    /\ tableRows = TableRows(FilterEntries(allEntries, keywordInput, dateInput))

\* C5: after any change of the filter inputs the insights shown are those of
\* the whole of allEntries and the summary balance.
C5_InsightsIgnoreFilters ==
    [][FilterStep =>
         insightsList' = UpdateInsights(allEntries', summary'.balance)]_vars

\* Each entry has its own row: the rows are the entries in some order.
RowsCoverEntries(rows, entries) ==
    /\ Len(rows) = Len(entries)
    /\ \E f \in [DOMAIN rows -> DOMAIN entries] :
         /\ \A i, j \in DOMAIN rows : i # j => f[i] # f[j]
         /\ \A i \in DOMAIN rows :
              /\ rows[i].date = entries[f[i]].date
              /\ rows[i].amount = entries[f[i]].amount
              /\ (rows[i].type = "Cash In") = (entries[f[i]].type = "cash_in")
              /\ rows[i].note =
                   IF entries[f[i]].note = <<>> THEN <<"-">> ELSE entries[f[i]].note

LoadFinishes(i) ==
    \/ DeliverSummary(i)
    \/ DeliverFailure(i) /\ tasks[i].pc \in LoadPcs
    \/ DeliverCashbooks(i) /\ activeCashbook' = ""

\* C7: every loadCashbooks / loadEntries execution leaves the loading
\* overlay hidden when it finishes, on every exit path; so with none in
\* flight the overlay is hidden.
C7_LoadingReleased ==
    /\ [][\A i \in DOMAIN tasks : LoadFinishes(i) => ~loading']_vars
    /\ []((booted /\ \A i \in DOMAIN tasks : tasks[i].pc \notin LoadPcs)
            => ~loading)

C7_Witness ==
    /\ booted
    /\ tasks = <<>>
    /\ shown = <<Toast("Request failed", "error")>>
    /\ activeCashbook # ""
    /\ ~loading

\* The parts of C8 that the statement and its amendment share: a resolved
\* mutation shows its success toast in the run that issues the refetch; a
\* delete's refetch leaves the deleted id out; a rejected mutation shows one
\* error toast, issues nothing and leaves allEntries and summary alone.
MutationOutcome ==
    \A i \in DOMAIN tasks :
      /\ DeliverMutation(i) =>
           /\ shown' = <<Toast(IF tasks[i].op = "add" THEN "Entry added"
                                                      ELSE "Entry deleted",
                               "success")>>
           /\ Len(tasks') = Len(tasks)
           /\ tasks'[i].pc = "get_entries" /\ tasks'[i].status = "pending"
           /\ \A j \in DOMAIN tasks : j # i => tasks'[j] = tasks[j]
      /\ (DeliverEntries(i) /\ tasks[i].op = "delete") =>
           tasks[i].id \notin Ids(allEntries')
      /\ (DeliverFailure(i) /\ tasks[i].pc \in {"add_entry", "delete_entry"}) =>
           /\ Len(shown') = 1 /\ shown'[1].type = "error"
           /\ tasks' = RemoveAt(tasks, i)
           /\ UNCHANGED <<allEntries, summary>>

\* C8 as stated: every add or delete action issues exactly one mutating
\* request, and the add's refetch always holds the added entry.
C8_AsStated ==
    [][/\ SubmitStep => IssuesOne("add_entry")
       /\ ClickDeleteStep => IssuesOne("delete_entry")
       /\ MutationOutcome
       /\ \A i \in DOMAIN tasks :
            (DeliverEntries(i) /\ tasks[i].op = "add") =>
               tasks[i].id \in Ids(allEntries')]_vars

\* C8 amended: with a cashbook active the action issues exactly one mutating
\* request, with none active it issues none; the add's refetch holds the
\* added entry unless the backend no longer holds it.
C8_OneMutationThenRefetch ==
    [][/\ SubmitStep =>
            IF activeCashbook # "" THEN IssuesOne("add_entry")
                                   ELSE UNCHANGED tasks
       /\ ClickDeleteStep =>
            IF activeCashbook # "" THEN IssuesOne("delete_entry")
                                   ELSE UNCHANGED tasks
       /\ MutationOutcome
       /\ \A i \in DOMAIN tasks :
            (DeliverEntries(i) /\ tasks[i].op = "add") =>
               \/ tasks[i].id \in Ids(allEntries')
               \/ tasks[i].id \notin Ids(EntriesOf(activeCashbook))]_vars

C8_Witness ==
    \E i \in DOMAIN tasks :
      /\ tasks[i].op = "delete"
      /\ tasks[i].pc = "summary"
      /\ tasks[i].id \notin Ids(allEntries)
      /\ shown = <<>>

\* C9: with no request in flight the table shows the entries that the
\* filter inputs select from allEntries.
C9_TableMatchesFilter ==
    (booted /\ location = "/" /\ tasks = <<>>) =>
        Range(tableRows) =
            Range(FilterEntries(allEntries, keywordInput, dateInput))

\* C10: once every request has completed successfully, allEntries and
\* summary are the backend's entries and summary of the active cashbook.
C10_ConvergesToBackend ==
    (booted /\ location = "/" /\ tasks = <<>> /\ ~anyFailed
       /\ activeCashbook # "") =>
        /\ allEntries = EntriesOf(activeCashbook)
        /\ summary = SummaryOf(EntriesOf(activeCashbook))

====
